---- MODULE Spec2Model ----
(***************************************************************************)
(* HMN Cascade LangExtract intelligence pipeline                           *)
(* (scripts/langextract/extract.py, scripts/langextract/schema.py).        *)
(*                                                                         *)
(* The model is the batch process main(): the connectivity check, the      *)
(* fetch of the source rows, the processed filter, and the per-session     *)
(* loop of extract_intelligence (primary path, fallback path) and          *)
(* sync_extraction_to_graph (one Cypher query per step).  The graph store  *)
(* is a set of nodes and a set of relationships with Cypher's MERGE,       *)
(* MATCH, CREATE and SET semantics.  The LLM and the package imports are   *)
(* the environment: each call draws its outcome nondeterministically.      *)
(* The graph store may be unreachable at the startup check and any         *)
(* session.run of a sync may raise (a graph write error).  Several runs    *)
(* of the script follow each other on the same graph.                      *)
(*                                                                         *)
(* Abstractions: datetime() property values (updatedAt, createdAt) are     *)
(* left out; confidence is kept in tenths (0.8 is 8); a text is a          *)
(* sequence of string tokens, so that strip() and the join are computed.   *)
(***************************************************************************)
EXTENDS Integers, Sequences, FiniteSets, TLC

VARIABLES
    nodes,          \* the graph store's nodes: [id, label, key, props]
    edges,          \* the graph store's relationships: [id, type, src, dst, props]
    nextId,         \* the store's next fresh element id
    pc,             \* position of the process in main() and its callees
    runs,           \* number of process runs started so far
    args,           \* argparse result of this run: [reprocess, session]
    sessions,       \* main's local list `sessions`
    i,              \* main's loop index (enumerate(sessions, 1))
    success_count,  \* main's local success_count
    api_key_set,    \* whether GEMINI_API_KEY is non-empty in the environment (.env)
    exitCode,       \* exit status of the run ("none" while it runs)
    summary,        \* TRUE once "Pipeline complete" and the totals were logged
    ex,             \* the frame of the running extract_intelligence call
    extraction,     \* main's local `extraction`
    syncPos,        \* index of the next query of sync_extraction_to_graph
    conversation_text, \* the transcript the running extraction call has built
    hist            \* history of the runs (what was extracted, synced, counted)

vars == <<nodes, edges, nextId, pc, runs, args, sessions, i, success_count,
          api_key_set, exitCode, summary, ex, extraction, syncPos,
          conversation_text, hist>>

-----------------------------------------------------------------------------
(* Bounds *)

MaxRuns == 2

\* the transcripts checked: responses per session, follow-ups per response
MaxResponses == 2

MaxFollowUps == 2

-----------------------------------------------------------------------------
(* Python values *)

\* A key that a dict does not hold / an Optional field that is None.
Absent == "<absent>"
None == "<None>"

\* dict.get(key, default)
Get(d, key, default) == IF d[key] = Absent THEN default ELSE d[key]

\* `value or default` on an Optional[str]: None and "" are falsy.
OrDefault(value, default) == IF value = None \/ value = "" THEN default ELSE value

-----------------------------------------------------------------------------
(* The source store: rows of cascade_sessions, in the order a query returns them *)

NoFollowUps == <<>>

Resp(t, q, a, f) == [inputType |-> t, questionText |-> q, answer |-> a, aiFollowUps |-> f]

FollowUp(q, a) == [question |-> q, answer |-> a]

NoData == [present |-> FALSE, participant |-> [name |-> Absent, company |-> Absent],
           responses |-> <<>>]

Rows ==
    << \* s1: analyzed, top-level shape, an eligible response with a follow-up
       [id |-> "s1", status |-> "analyzed", data |-> NoData,
        participant |-> [name |-> "Ann", company |-> "Acme"],
        responses |-> << Resp("open_text", "What tools do you use?",
                              "We use ChatGPT daily", <<FollowUp("Why?", "Speed")>>),
                         Resp("slider", "Rate it", "7", NoFollowUps) >>],
       \* s2: analyzed, nested under `data`, participant without a name
       [id |-> "s2", status |-> "analyzed",
        data |-> [present |-> TRUE,
                  participant |-> [name |-> Absent, company |-> "Bolt"],
                  responses |-> << Resp("ai_conversation", "Goals?", "\"Grow\"", NoFollowUps) >>],
        participant |-> [name |-> Absent, company |-> Absent],
        responses |-> <<>>],
       \* s3: analyzed, no eligible response (the follow-up belongs to a slider)
       [id |-> "s3", status |-> "analyzed", data |-> NoData,
        participant |-> [name |-> "Cy", company |-> Absent],
        responses |-> << Resp("multiple_choice", "Pick", "a", NoFollowUps),
                         Resp("slider", "Rate", "3", <<FollowUp("More?", "No")>>) >>],
       \* s4: not analyzed
       [id |-> "s4", status |-> "in_progress", data |-> NoData,
        participant |-> [name |-> "Dee", company |-> "Dyn"],
        responses |-> << Resp("voice", "Pain?", "Manual entry", NoFollowUps) >>] >>

RowIds == {Rows[k].id : k \in 1..Len(Rows)}

\* The Session nodes the assessment system (an external collaborator) has
\* created: s2 has none.
SessionNodeIds == {"s1", "s3", "s4"}

\* Values of --session: not given, the empty string, ids of rows, an unknown id.
SessionArgs == {None, "", "s1", "s4", "zz"}

\* session.get("data") or session
DataOf(row) == IF row.data.present THEN row.data ELSE row

\* query.eq(column, value).execute(): the rows whose column holds the value
RECURSIVE SelectEq(_, _, _)
SelectEq(rows, column, value) ==
    IF rows = <<>> THEN <<>>
    ELSE (IF Head(rows)[column] = value THEN <<Head(rows)>> ELSE <<>>)
         \o SelectEq(Tail(rows), column, value)

\* fetch_analyzed_sessions: `if session_id:` is false for None and for "".
fetch_analyzed_sessions(session_id) ==
    IF session_id # None /\ session_id # ""
    THEN SelectEq(Rows, "id", session_id)
    ELSE SelectEq(Rows, "status", "analyzed")

-----------------------------------------------------------------------------
(* Conversation assembler *)

EligibleTypes == {"ai_conversation", "open_text", "voice"}

\* answer.startswith('"') and answer.endswith('"'), for the answers of Rows
LooksJsonQuoted(answer) == answer \in {"\"Grow\"", "\"a\"b\""}

\* json.loads(answer): "\"a\"b\"" is no JSON text (JSONDecodeError)
JsonLoads(answer) ==
    CASE answer = "\"Grow\"" -> [ok |-> TRUE, value |-> "Grow"]
      [] OTHER -> [ok |-> FALSE, value |-> answer]

\* the unwrapping of a double-serialized answer; a decode failure keeps the raw string
JsonUnwrap(answer) ==
    IF LooksJsonQuoted(answer) /\ JsonLoads(answer).ok THEN JsonLoads(answer).value
    ELSE answer

\* (mutant) a follow-up appended as one part, like the primary Q/A part
FollowUpPartsOnePart(f) ==
    << <<"Follow-up Q: ", f.question, "\nA: ", f.answer>> >>

\* lines 95-97: two parts per follow-up
FollowUpParts(f) ==
    << <<"Follow-up Q: ", f.question>>, <<"Follow-up A: ", f.answer>> >>

RECURSIVE FollowUpsParts(_)
FollowUpsParts(fs) ==
    IF fs = <<>> THEN <<>> ELSE FollowUpParts(Head(fs)) \o FollowUpsParts(Tail(fs))

\* the parts one response appends
ResponseParts(resp) ==
    IF resp.inputType \notin EligibleTypes THEN <<>>
    ELSE << <<"Q: ", resp.questionText, "\nA: ", JsonUnwrap(resp.answer)>> >>
         \o FollowUpsParts(resp.aiFollowUps)

RECURSIVE ConversationParts(_)
ConversationParts(responses) ==
    IF responses = <<>> THEN <<>>
    ELSE ResponseParts(Head(responses)) \o ConversationParts(Tail(responses))

\* "\n\n".join(parts)
RECURSIVE Join(_)
Join(parts) ==
    IF parts = <<>> THEN <<>>
    ELSE IF Len(parts) = 1 THEN Head(parts)
    ELSE Head(parts) \o <<"\n\n">> \o Join(Tail(parts))

get_ai_conversation_text(row) == Join(ConversationParts(DataOf(row).responses))

Whitespace == {"", " ", "\n", "\n\n"}

\* not text.strip()
IsBlank(text) == \A k \in 1..Len(text) : text[k] \in Whitespace

-----------------------------------------------------------------------------
(* Extraction schema (schema.py) and what the LLM may answer *)

ExtractedTheme(n, c, s, d, e, k) ==
    [name |-> n, category |-> c, sentiment |-> s, related_dimensions |-> d,
     evidence |-> e, confidence |-> k]

ExtractedTool(n, f, s, u) ==
    [name |-> n, usage_frequency |-> f, sophistication |-> s, use_case |-> u]

ExtractedPainPoint(d, s, a, p) ==
    [description |-> d, severity |-> s, area |-> a, potential_ai_solution |-> p]

ExtractedGoal(d, t, r) == [description |-> d, timeframe |-> t, related_to_ai |-> r]

ExtractedQuote(t, c, s, u) ==
    [text |-> t, context |-> c, sentiment |-> s, usable_as_testimonial |-> u]

SessionExtraction(sid, pname, comp, th, tl, pp, gl, qu) ==
    [session_id |-> sid, participant_name |-> pname, company |-> comp,
     themes |-> th, tools |-> tl, pain_points |-> pp, goals |-> gl, quotes |-> qu]

\* The structured answers of the LLM: the five lists.  The identity fields
\* of an answer of the primary path are whatever the LLM wrote.
LLMAnswers ==
    << \* 1: one entity of each kind, every optional field given
       SessionExtraction("llm", "llm", "llm",
          << ExtractedTheme("ChatGPT adoption", "tool", "positive", <<"ai_action">>, "we use it", 8) >>,
          << ExtractedTool("ChatGPT", "daily", "basic", "drafting") >>,
          << ExtractedPainPoint("Manual entry", "high", "operations", "automation") >>,
          << ExtractedGoal("Automate", "near_term", TRUE) >>,
          << ExtractedQuote("We use ChatGPT daily", "tools", "positive", TRUE) >>),
       \* 2: the same keys with other values, optional fields absent or empty,
       \*    a key and a dimension twice, a second theme of the same dimension
       SessionExtraction("llm", "llm", "llm",
          << ExtractedTheme("ChatGPT adoption", "process", "mixed", <<"ai_action">>, "old", 3),
             ExtractedTheme("ChatGPT adoption", "process", "negative",
                            <<"ai_action", "ai_awareness", "ai_action">>, "slow", 5),
             ExtractedTheme("Data entry", "pain_point", "negative", <<"ai_action">>, "typing", 9) >>,
          << ExtractedTool("ChatGPT", None, "", None) >>,
          << ExtractedPainPoint("Manual entry", "low", "sales", None) >>,
          << ExtractedGoal("Automate", None, FALSE) >>,
          << ExtractedQuote("We use ChatGPT daily", "tools", "positive", TRUE),
             ExtractedQuote("We use ChatGPT daily", "tools", "positive", TRUE) >>),
       \* 3: no theme
       SessionExtraction("llm", "llm", "llm",
          <<>>, <<>>, <<>>, <<>>,
          << ExtractedQuote("Speed", "why", "neutral", FALSE) >>) >>

AnswerIds == 1..Len(LLMAnswers)

\* main's `extraction` before extract_intelligence returned one
NoExtraction == SessionExtraction(None, None, None, <<>>, <<>>, <<>>, <<>>, <<>>)

-----------------------------------------------------------------------------
(* The graph store: Cypher on a graph g = [nodes, edges, nextId] *)

NoProps == [x \in {} |-> None]

\* (mutant) SET that keeps the value a property already has
SetPropsKeepsOld(old, new) ==
    [f \in DOMAIN old \cup DOMAIN new |-> IF f \in DOMAIN old THEN old[f] ELSE new[f]]

\* SET: the named properties are overwritten, the others kept
SetProps(old, new) ==
    [f \in DOMAIN old \cup DOMAIN new |-> IF f \in DOMAIN new THEN new[f] ELSE old[f]]

\* MATCH (n:label {key})
MatchNodes(g, label, key) == {n \in g.nodes : n.label = label /\ n.key = key}

\* CREATE (n:label {key, props})
CreateNode(g, label, key, props) ==
    [g EXCEPT !.nodes = @ \cup {[id |-> g.nextId, label |-> label, key |-> key, props |-> props]},
              !.nextId = @ + 1]

\* (mutant) CREATE in the place of MERGE
MergeNodeCreates(g, label, key) == CreateNode(g, label, key, NoProps)

\* MERGE (n:label {key}): creates the node only when none matches
MergeNode(g, label, key) ==
    IF MatchNodes(g, label, key) = {} THEN CreateNode(g, label, key, NoProps) ELSE g

\* SET n.p = v ... on every bound node
SetNodeProps(g, bound, props) ==
    [g EXCEPT !.nodes = {IF n \in bound THEN [n EXCEPT !.props = SetProps(@, props)] ELSE n
                          : n \in g.nodes}]

\* MATCH (a)-[r:type]->(b)
MatchEdges(g, type, src, dst) ==
    {e \in g.edges : e.type = type /\ e.src = src /\ e.dst = dst}

\* CREATE (a)-[:type]->(b)
CreateEdge(g, type, src, dst) ==
    [g EXCEPT !.edges = @ \cup {[id |-> g.nextId, type |-> type, src |-> src, dst |-> dst,
                                  props |-> NoProps]},
              !.nextId = @ + 1]

\* MERGE (a)-[r:type]->(b) for one row: creates the relationship only when none matches
MergeEdge(g, type, src, dst) ==
    IF MatchEdges(g, type, src, dst) = {} THEN CreateEdge(g, type, src, dst) ELSE g

\* MERGE (a)-[r:type]->(b) SET r.p = v, run for every row (a, b) of the query
RECURSIVE MergeEdgesSet(_, _, _, _)
MergeEdgesSet(g, type, rows, props) ==
    IF rows = {} THEN g
    ELSE LET row == CHOOSE r \in rows : \A o \in rows : r[1] < o[1] \/ (r[1] = o[1] /\ r[2] <= o[2])
             g1 == MergeEdge(g, type, row[1], row[2])
             bound == MatchEdges(g1, type, row[1], row[2])
             g2 == [g1 EXCEPT !.edges = {IF e \in bound
                                          THEN [e EXCEPT !.props = SetProps(@, props)]
                                          ELSE e : e \in g1.edges}]
         IN MergeEdgesSet(g2, type, rows \ {row}, props)

Ids(ns) == {n.id : n \in ns}

\* (mutant) the Session is matched first, so nothing is merged without it
MergeEntityMatchFirst(g, label, key, nodeProps, sid, type, edgeProps) ==
    IF MatchNodes(g, "Session", sid) = {} THEN g
    ELSE LET g1 == MergeNode(g, label, key)
             g2 == SetNodeProps(g1, MatchNodes(g1, label, key), nodeProps)
         IN MergeEdgesSet(g2, type,
                          Ids(MatchNodes(g2, "Session", sid)) \X Ids(MatchNodes(g2, label, key)),
                          edgeProps)

\* MERGE (n:label {key}) SET n... WITH n MATCH (s:Session {id}) MERGE (s)-[r:type]->(n) SET r...
MergeEntity(g, label, key, nodeProps, sid, type, edgeProps) ==
    LET g1 == MergeNode(g, label, key)
        g2 == SetNodeProps(g1, MatchNodes(g1, label, key), nodeProps)
        t == Ids(MatchNodes(g2, label, key))
        s == Ids(MatchNodes(g2, "Session", sid))
    IN MergeEdgesSet(g2, type, s \X t, edgeProps)

\* lines 244-258
SyncTheme(g, sid, theme) ==
    MergeEntity(g, "Theme", theme.name, [category |-> theme.category], sid, "SURFACED",
                [sentiment |-> theme.sentiment, confidence |-> theme.confidence,
                 evidence |-> theme.evidence])

\* lines 262-266
SyncDimension(g, themeName, dim) ==
    LET g1 == MergeNode(g, "Theme", themeName)
        g2 == MergeNode(g1, "ScoringDimension", dim)
        t == Ids(MatchNodes(g2, "Theme", themeName))
        d == Ids(MatchNodes(g2, "ScoringDimension", dim))
    IN MergeEdgesSet(g2, "RELATES_TO", t \X d, NoProps)

\* lines 270-283
SyncTool(g, sid, tool) ==
    MergeEntity(g, "Tool", tool.name, NoProps, sid, "USES_TOOL",
                [frequency |-> OrDefault(tool.usage_frequency, "unknown"),
                 sophistication |-> OrDefault(tool.sophistication, "unknown"),
                 useCase |-> OrDefault(tool.use_case, "")])

\* lines 287-300
SyncPainPoint(g, sid, pp) ==
    MergeEntity(g, "PainPoint", pp.description, [severity |-> pp.severity, area |-> pp.area],
                sid, "HAS_PAIN_POINT",
                [potentialAiSolution |-> OrDefault(pp.potential_ai_solution, "")])

\* lines 304-315
SyncGoal(g, sid, goal) ==
    MergeEntity(g, "Goal", goal.description,
                [timeframe |-> OrDefault(goal.timeframe, "unspecified"),
                 relatedToAi |-> goal.related_to_ai],
                sid, "HAS_GOAL", NoProps)

\* MATCH (s:Session {id}) CREATE (q:Quote {...}) CREATE (s)-[:QUOTED]->(q), per matched row
RECURSIVE CreateQuotes(_, _, _)
CreateQuotes(g, srcs, props) ==
    IF srcs = {} THEN g
    ELSE LET s == CHOOSE x \in srcs : \A o \in srcs : x <= o
             g1 == CreateNode(g, "Quote", "", props)
             g2 == CreateEdge(g1, "QUOTED", s, g.nextId)
         IN CreateQuotes(g2, srcs \ {s}, props)

\* (mutant) the Quote node is merged by its text
SyncQuoteMerged(g, sid, quote) ==
    LET g1 == IF MatchNodes(g, "Session", sid) = {} THEN g ELSE MergeNode(g, "Quote", quote.text)
    IN MergeEdgesSet(g1, "QUOTED",
                     Ids(MatchNodes(g1, "Session", sid)) \X Ids(MatchNodes(g1, "Quote", quote.text)),
                     NoProps)

\* lines 319-329
SyncQuote(g, sid, quote) ==
    CreateQuotes(g, Ids(MatchNodes(g, "Session", sid)),
                 [text |-> quote.text, context |-> quote.context,
                  sentiment |-> quote.sentiment, testimonial |-> quote.usable_as_testimonial])

\* the queries sync_extraction_to_graph issues, in order
RECURSIVE DimensionQueries(_, _)
DimensionQueries(themeName, dims) ==
    IF dims = <<>> THEN <<>>
    ELSE <<[kind |-> "dimension", theme |-> themeName, dim |-> Head(dims)]>>
         \o DimensionQueries(themeName, Tail(dims))

RECURSIVE ThemeQueries(_)
ThemeQueries(themes) ==
    IF themes = <<>> THEN <<>>
    ELSE <<[kind |-> "theme", item |-> Head(themes)]>>
         \o DimensionQueries(Head(themes).name, Head(themes).related_dimensions)
         \o ThemeQueries(Tail(themes))

ItemQueries(kind, items) == [k \in 1..Len(items) |-> [kind |-> kind, item |-> items[k]]]

SyncQueries(e) ==
    ThemeQueries(e.themes) \o ItemQueries("tool", e.tools)
    \o ItemQueries("pain_point", e.pain_points) \o ItemQueries("goal", e.goals)
    \o ItemQueries("quote", e.quotes)

\* session.run(query, parameters)
RunQuery(g, sid, q) ==
    CASE q.kind = "theme" -> SyncTheme(g, sid, q.item)
      [] q.kind = "dimension" -> SyncDimension(g, q.theme, q.dim)
      [] q.kind = "tool" -> SyncTool(g, sid, q.item)
      [] q.kind = "pain_point" -> SyncPainPoint(g, sid, q.item)
      [] q.kind = "goal" -> SyncGoal(g, sid, q.item)
      [] q.kind = "quote" -> SyncQuote(g, sid, q.item)

\* (mutant) MATCH (s:Session) RETURN DISTINCT s.id
get_all_session_ids(g) == {n.key : n \in {m \in g.nodes : m.label = "Session"}}

\* MATCH (s:Session)-[:SURFACED]->(:Theme) RETURN DISTINCT s.id
get_processed_session_ids(g) ==
    {n.key : n \in {m \in g.nodes : m.label = "Session" /\
                        \E e \in g.edges : \E t \in g.nodes :
                            /\ e.type = "SURFACED" /\ e.src = m.id /\ e.dst = t.id
                            /\ t.label = "Theme"}}

\* [s for s in sessions if s["id"] not in already_processed]
RECURSIVE FilterProcessed(_, _)
FilterProcessed(rows, already_processed) ==
    IF rows = <<>> THEN <<>>
    ELSE (IF Head(rows).id \notin already_processed THEN <<Head(rows)>> ELSE <<>>)
         \o FilterProcessed(Tail(rows), already_processed)

-----------------------------------------------------------------------------
(* The process *)

G == [nodes |-> nodes, edges |-> edges, nextId |-> nextId]

NoArgs == [reprocess |-> FALSE, session |-> None]

\* A call of extract_intelligence: the session, how often the primary
\* extractor and the fallback function were entered, the LLM requests made,
\* whether langextract was unavailable, whether the primary path raised,
\* whether the fallback failed, and what the call returned.
NoCall == [sid |-> None, primaryCalls |-> 0, fallbackCalls |-> 0, llmCalls |-> 0,
           unavailable |-> FALSE, raised |-> FALSE, fallbackFailed |-> FALSE,
           result |-> "pending"]

\* History: this run's log of finished sessions, the extractions whose sync
\* completed per session (and how many syncs completed), the Quote nodes and
\* the relationships at the entry of the running sync, whether the startup
\* check failed, whether a graph write raised, the sessions that earlier runs
\* without a flag, which ended with their summary, counted as a success.
NoHist == [log |-> <<>>, synced |-> [sid \in RowIds |-> {}], count |-> [sid \in RowIds |-> 0],
           quotesBefore |-> 0, edgesBefore |-> {}, unreachable |-> FALSE,
           writeError |-> FALSE, prior |-> {}]

InitialGraph ==
    LET ids == CHOOSE f \in [SessionNodeIds -> 1..Cardinality(SessionNodeIds)] :
                   \A a, b \in SessionNodeIds : a # b => f[a] # f[b]
    IN [nodes |-> {[id |-> ids[sid], label |-> "Session", key |-> sid, props |-> NoProps]
                    : sid \in SessionNodeIds},
        edges |-> {},
        nextId |-> Cardinality(SessionNodeIds) + 1]

Init ==
    /\ nodes = InitialGraph.nodes
    /\ edges = InitialGraph.edges
    /\ nextId = InitialGraph.nextId
    /\ pc = "idle"
    /\ runs = 0
    /\ args = NoArgs
    /\ sessions = <<>>
    /\ i = 1
    /\ success_count = 0
    /\ api_key_set \in BOOLEAN
    /\ exitCode = "none"
    /\ summary = FALSE
    /\ ex = NoCall
    /\ extraction = NoExtraction
    /\ syncPos = 1
    /\ conversation_text = <<>>
    /\ hist = NoHist

Graph == <<nodes, edges, nextId>>

\* the process ends with the given status
Exit(code) == pc' = "exited" /\ exitCode' = code

\* a run of the script starts: argparse, the environment
StartRun ==
    /\ pc \in {"idle", "exited"}
    /\ runs < MaxRuns
    /\ runs' = runs + 1
    /\ \E r \in BOOLEAN, sa \in SessionArgs : args' = [reprocess |-> r, session |-> sa]
    /\ pc' = "verify"
    /\ sessions' = <<>>
    /\ i' = 1
    /\ success_count' = 0
    /\ exitCode' = "none"
    /\ summary' = FALSE
    /\ ex' = NoCall
    /\ extraction' = NoExtraction
    /\ syncPos' = 1
    /\ hist' = [hist EXCEPT !.log = <<>>, !.quotesBefore = 0, !.edgesBefore = {},
                            !.unreachable = FALSE, !.writeError = FALSE,
                            !.prior = IF args = NoArgs /\ summary
                                      THEN @ \cup {hist.log[k].sid : k \in
                                               {j \in 1..Len(hist.log) :
                                                   hist.log[j].result = "synced"}}
                                      ELSE @]
    /\ UNCHANGED <<Graph, api_key_set, conversation_text>>

\* lines 357-361: RETURN 1 succeeds
VerifyOk ==
    /\ pc = "verify"
    /\ pc' = "fetch"
    /\ UNCHANGED <<Graph, runs, args, sessions, i, success_count, api_key_set, exitCode,
                   summary, ex, extraction, syncPos, conversation_text, hist>>

\* lines 362-364: the store is unreachable, sys.exit(1)
VerifyFail ==
    /\ pc = "verify"
    /\ Exit(1)
    /\ hist' = [hist EXCEPT !.unreachable = TRUE]
    /\ UNCHANGED <<Graph, runs, args, sessions, i, success_count, api_key_set,
                   summary, ex, extraction, syncPos, conversation_text>>

\* lines 367-371 and the tests of lines 374, 380
Fetch ==
    /\ pc = "fetch"
    /\ sessions' = fetch_analyzed_sessions(args.session)
    /\ IF sessions' = <<>>
       THEN Exit(0)
       ELSE /\ pc' = IF ~args.reprocess /\ (args.session = None \/ args.session = "")
                     THEN "filter" ELSE "loop"
            /\ UNCHANGED exitCode
    /\ UNCHANGED <<Graph, runs, args, i, success_count, api_key_set,
                   summary, ex, extraction, syncPos, conversation_text, hist>>

\* lines 375-382
Filter ==
    /\ pc = "filter"
    /\ sessions' = FilterProcessed(sessions, get_processed_session_ids(G))
    /\ IF sessions' = <<>>
       THEN Exit(0)
       ELSE pc' = "loop" /\ UNCHANGED exitCode
    /\ UNCHANGED <<Graph, runs, args, i, success_count, api_key_set,
                   summary, ex, extraction, syncPos, conversation_text, hist>>

Row == sessions[i]

Participant(row) == DataOf(row).participant

UnchangedMain == UNCHANGED <<Graph, runs, args, sessions, i, success_count, api_key_set,
                            exitCode, summary, syncPos, hist>>

\* lines 386-395: the loop takes the next session and calls extract_intelligence
LoopEnter ==
    /\ pc = "loop"
    /\ i <= Len(sessions)
    /\ ex' = [NoCall EXCEPT !.sid = Row.id]
    /\ pc' = "ex_import"
    /\ UNCHANGED extraction
    /\ UNCHANGED conversation_text
    /\ UnchangedMain

\* extract_intelligence returns to main
Return(result, value) ==
    /\ pc' = "returned"
    /\ extraction' = value
    /\ ex' = [ex EXCEPT !.result = result]

ReturnNone == Return("none", NoExtraction)

\* extract_with_gemini_direct returns None, and extract_intelligence returns that
FallbackFails ==
    /\ pc' = "returned"
    /\ extraction' = NoExtraction
    /\ ex' = [ex EXCEPT !.result = "none", !.fallbackFailed = TRUE]

\* line 107: langextract is installed
ImportOk ==
    /\ pc = "ex_import"
    /\ pc' = "ex_text"
    /\ UNCHANGED <<ex, extraction>>
    /\ UNCHANGED conversation_text
    /\ UnchangedMain

\* lines 108-110: ImportError, the fallback is called
ImportFails ==
    /\ pc = "ex_import"
    /\ pc' = "fb_import"
    /\ ex' = [ex EXCEPT !.unavailable = TRUE, !.fallbackCalls = @ + 1]
    /\ UNCHANGED extraction
    /\ UNCHANGED conversation_text
    /\ UnchangedMain

\* lines 112-118: no conversation text, skip
PrimaryText ==
    /\ pc = "ex_text"
    /\ conversation_text' = get_ai_conversation_text(Row)
    /\ IF IsBlank(conversation_text')
       THEN ReturnNone
       ELSE /\ pc' = "ex_call"
            /\ ex' = [ex EXCEPT !.primaryCalls = @ + 1]
            /\ UNCHANGED extraction
    /\ UnchangedMain

\* (mutant) the answer of the LLM is returned as it came
StampNothing(result, row) == result

\* lines 158-160: the identity fields are stamped on the result
Stamp(result, row) ==
    [result EXCEPT !.session_id = row.id,
                   !.participant_name = Get(Participant(row), "name", "Unknown"),
                   !.company = Get(Participant(row), "company", "Unknown")]

\* lines 146-161: the extractor returns a result
PrimaryReturns ==
    /\ pc = "ex_call"
    /\ \E a \in AnswerIds :
          /\ pc' = "returned"
          /\ extraction' = Stamp(LLMAnswers[a], Row)
          /\ ex' = [ex EXCEPT !.llmCalls = @ + 1, !.result = "extraction"]
    /\ UNCHANGED conversation_text
    /\ UnchangedMain

\* lines 157, 167: the extractor returns a falsy result
PrimaryReturnsNothing ==
    /\ pc = "ex_call"
    /\ pc' = "returned"
    /\ extraction' = NoExtraction
    /\ ex' = [ex EXCEPT !.llmCalls = @ + 1, !.result = "none"]
    /\ UNCHANGED conversation_text
    /\ UnchangedMain

\* lines 163-165: Extractor() or extract() raises, the fallback is called
PrimaryRaises ==
    /\ pc = "ex_call"
    /\ pc' = "fb_import"
    /\ \E called \in {0, 1} :
          ex' = [ex EXCEPT !.llmCalls = @ + called, !.raised = TRUE, !.fallbackCalls = @ + 1]
    /\ UNCHANGED extraction
    /\ UNCHANGED conversation_text
    /\ UnchangedMain

\* line 173: google.generativeai is installed
GenaiImportOk ==
    /\ pc = "fb_import"
    /\ pc' = "fb_key"
    /\ UNCHANGED <<ex, extraction>>
    /\ UNCHANGED conversation_text
    /\ UnchangedMain

\* lines 174-176
GenaiImportFails ==
    /\ pc = "fb_import"
    /\ FallbackFails
    /\ UNCHANGED conversation_text
    /\ UnchangedMain

\* lines 178-183
FallbackKey ==
    /\ pc = "fb_key"
    /\ IF ~api_key_set
       THEN FallbackFails
       ELSE pc' = "fb_text" /\ UNCHANGED <<ex, extraction>>
    /\ UNCHANGED conversation_text
    /\ UnchangedMain

\* (mutant) the fallback does not test the transcript
FallbackTextUnchecked ==
    /\ pc = "fb_text"
    /\ conversation_text' = get_ai_conversation_text(Row)
    /\ pc' = "fb_call"
    /\ UNCHANGED <<ex, extraction>>
    /\ UnchangedMain

\* lines 185-190
FallbackText ==
    /\ pc = "fb_text"
    /\ conversation_text' = get_ai_conversation_text(Row)
    /\ IF IsBlank(conversation_text')
       THEN FallbackFails
       ELSE pc' = "fb_call" /\ UNCHANGED <<ex, extraction>>
    /\ UnchangedMain

\* lines 222-231: the extraction built from the parsed answer
FromParsed(parsed, row) ==
    SessionExtraction(row.id,
                      Get(Participant(row), "name", "Unknown"),
                      Get(Participant(row), "company", "Unknown"),
                      parsed.themes, parsed.tools, parsed.pain_points,
                      parsed.goals, parsed.quotes)

\* lines 209-231: the completion parses and validates
FallbackReturns ==
    /\ pc = "fb_call"
    /\ \E a \in AnswerIds :
          /\ pc' = "returned"
          /\ extraction' = FromParsed(LLMAnswers[a], Row)
          /\ ex' = [ex EXCEPT !.llmCalls = @ + 1, !.result = "extraction"]
    /\ UNCHANGED conversation_text
    /\ UnchangedMain

\* lines 232-234: the call, the parse or the validation raises
FallbackRaises ==
    /\ pc = "fb_call"
    /\ pc' = "returned"
    /\ extraction' = NoExtraction
    /\ ex' = [ex EXCEPT !.llmCalls = @ + 1, !.result = "none", !.fallbackFailed = TRUE]
    /\ UNCHANGED conversation_text
    /\ UnchangedMain

CountNodes(label) == Cardinality({n \in nodes : n.label = label})

\* lines 396-397: `if extraction:` is true, sync_extraction_to_graph is entered
SyncEnter ==
    /\ pc = "returned"
    /\ ex.result = "extraction"
    /\ pc' = "sync"
    /\ syncPos' = 1
    /\ hist' = [hist EXCEPT !.quotesBefore = CountNodes("Quote"), !.edgesBefore = edges]
    /\ ex' = NoCall
    /\ conversation_text' = <<>>
    /\ UNCHANGED <<Graph, runs, args, sessions, i, success_count, api_key_set,
                   exitCode, summary, extraction>>

\* lines 399-400: no extraction, the session is skipped
Skip ==
    /\ pc = "returned"
    /\ ex.result # "extraction"
    /\ pc' = "loop"
    /\ i' = i + 1
    /\ hist' = [hist EXCEPT !.log = Append(@, [sid |-> Row.id, result |-> "none"])]
    /\ ex' = NoCall
    /\ conversation_text' = <<>>
    /\ UNCHANGED <<Graph, runs, args, sessions, success_count, api_key_set,
                   exitCode, summary, extraction, syncPos>>

\* one session.run of sync_extraction_to_graph
SyncStep ==
    /\ pc = "sync"
    /\ syncPos <= Len(SyncQueries(extraction))
    /\ LET g == RunQuery(G, extraction.session_id, SyncQueries(extraction)[syncPos])
       IN nodes' = g.nodes /\ edges' = g.edges /\ nextId' = g.nextId
    /\ syncPos' = syncPos + 1
    /\ UNCHANGED <<pc, runs, args, sessions, i, success_count, api_key_set,
                   exitCode, summary, ex, extraction, conversation_text, hist>>

\* a session.run raises (graph write error): nothing in sync_extraction_to_graph
\* or main catches it, the process ends with the traceback and status 1
SyncRaises ==
    /\ pc = "sync"
    /\ syncPos <= Len(SyncQueries(extraction))
    /\ Exit(1)
    /\ hist' = [hist EXCEPT !.writeError = TRUE]
    /\ UNCHANGED <<Graph, runs, args, sessions, i, success_count, api_key_set,
                   summary, ex, extraction, syncPos, conversation_text>>

\* lines 331-332, 398: the sync returned, the session counts as a success
SyncDone ==
    /\ pc = "sync"
    /\ syncPos > Len(SyncQueries(extraction))
    /\ success_count' = success_count + 1
    /\ i' = i + 1
    /\ pc' = "loop"
    /\ hist' = [hist EXCEPT !.log = Append(@, [sid |-> Row.id, result |-> "synced"]),
                            !.synced[Row.id] = @ \cup {extraction},
                            !.count[Row.id] = @ + 1]
    /\ UNCHANGED <<Graph, runs, args, sessions, api_key_set,
                   exitCode, summary, ex, extraction, syncPos, conversation_text>>

\* lines 402-419: the summary and the graph totals, the process ends
Finish ==
    /\ pc = "loop"
    /\ i > Len(sessions)
    /\ summary' = TRUE
    /\ Exit(0)
    /\ UNCHANGED <<Graph, runs, args, sessions, i, success_count, api_key_set,
                   ex, extraction, syncPos, conversation_text, hist>>

Next ==
    \/ StartRun \/ VerifyOk \/ VerifyFail \/ Fetch \/ Filter
    \/ LoopEnter \/ ImportOk \/ ImportFails \/ PrimaryText
    \/ PrimaryReturns \/ PrimaryReturnsNothing \/ PrimaryRaises
    \/ GenaiImportOk \/ GenaiImportFails \/ FallbackKey \/ FallbackText
    \/ FallbackReturns \/ FallbackRaises
    \/ SyncEnter \/ Skip \/ SyncStep \/ SyncRaises \/ SyncDone \/ Finish

Spec == Init /\ [][Next]_vars

-----------------------------------------------------------------------------
(* The conversation assembler on its own: the loop of main hands one session *)
(* record, drawn from the records of a bounded shape, to the extractor, and  *)
(* each path builds its transcript.                                          *)

\* input types of a response: the allow-list and one outside it
TextInputTypes == {"ai_conversation", "open_text", "voice", "slider"}

\* the shape of a response: its input type and the number of its follow-ups
ResponseShapes == [inputType : TextInputTypes, followUps : 0..MaxFollowUps]

\* the response list of a shape list; every question and answer is distinct
TextResponses(shapes) ==
    [k \in 1..Len(shapes) |->
        Resp(shapes[k].inputType, "q" \o ToString(k), "a" \o ToString(k),
             [j \in 1..shapes[k].followUps |->
                 FollowUp("fq" \o ToString(k) \o ToString(j),
                          "fa" \o ToString(k) \o ToString(j))])]

\* a session record, top-level or wrapped under `data`
TextRow(shapes, nested) ==
    IF nested
    THEN [id |-> "t", status |-> "analyzed",
          data |-> [present |-> TRUE, participant |-> [name |-> "Tea", company |-> Absent],
                    responses |-> TextResponses(shapes)],
          participant |-> [name |-> Absent, company |-> Absent],
          responses |-> <<>>]
    ELSE [id |-> "t", status |-> "analyzed", data |-> NoData,
          participant |-> [name |-> "Tea", company |-> Absent],
          responses |-> TextResponses(shapes)]

TextRows ==
    {TextRow(shapes, nested) :
        shapes \in UNION {[1..n -> ResponseShapes] : n \in 0..MaxResponses},
        nested \in BOOLEAN}

TextInit ==
    /\ nodes = InitialGraph.nodes
    /\ edges = InitialGraph.edges
    /\ nextId = InitialGraph.nextId
    /\ pc = "loop"
    /\ runs = 1
    /\ args = NoArgs
    /\ sessions \in {<<row>> : row \in TextRows}
    /\ i = 1
    /\ success_count = 0
    /\ api_key_set \in BOOLEAN
    /\ exitCode = "none"
    /\ summary = FALSE
    /\ ex = NoCall
    /\ extraction = NoExtraction
    /\ syncPos = 1
    /\ conversation_text = <<>>
    /\ hist = NoHist

TextNext ==
    \/ LoopEnter \/ ImportOk \/ ImportFails \/ PrimaryText
    \/ GenaiImportOk \/ FallbackKey \/ FallbackText

TextSpec == TextInit /\ [][TextNext]_vars

-----------------------------------------------------------------------------
(* Properties *)

SessionNodes(sid) == MatchNodes(G, "Session", sid)

HasSessionNode(sid) == SessionNodes(sid) # {}

\* sync_extraction_to_graph has issued its last query and is about to return
SyncComplete == pc = "sync" /\ syncPos > Len(SyncQueries(extraction))

\* the process is inside extract_intelligence
InExtract == pc \in {"ex_import", "ex_text", "ex_call", "fb_import", "fb_key", "fb_text", "fb_call"}

\* the last entry of a list with the given key
LastWith(items, field, key) ==
    items[CHOOSE k \in 1..Len(items) :
            /\ items[k][field] = key
            /\ \A j \in (k + 1)..Len(items) : items[j][field] # key]

Keys(items, field) == {items[k][field] : k \in 1..Len(items)}

\* the relationships of a type from the Session node(s) of sid to the node(s) of a key
SessionEdges(type, sid, label, key) ==
    {e \in edges : /\ e.type = type
                   /\ e.src \in Ids(SessionNodes(sid))
                   /\ e.dst \in Ids(MatchNodes(G, label, key))}

MergedLabels == {"Theme", "Tool", "PainPoint", "Goal", "ScoringDimension"}

MergedTypes == {"SURFACED", "USES_TOOL", "HAS_PAIN_POINT", "HAS_GOAL", "RELATES_TO"}

SessionTypes == {"SURFACED", "USES_TOOL", "HAS_PAIN_POINT", "HAS_GOAL"}

RelatesTo(themeName, dim) ==
    {e \in edges : /\ e.type = "RELATES_TO"
                   /\ e.src \in Ids(MatchNodes(G, "Theme", themeName))
                   /\ e.dst \in Ids(MatchNodes(G, "ScoringDimension", dim))}

\* C1: whatever was synced (any extraction, any session, the same one twice),
\* there is at most one Theme/Tool/PainPoint/Goal/ScoringDimension node per
\* key and at most one SURFACED/USES_TOOL/HAS_PAIN_POINT/HAS_GOAL/RELATES_TO
\* relationship per pair of nodes; a dimension named by the themes of
\* completed syncs is one ScoringDimension node with exactly one RELATES_TO
\* relationship from each such theme.
C1_MergedUnique ==
    /\ \A n, m \in nodes :
          (n.label \in MergedLabels /\ n.label = m.label /\ n.key = m.key) => n = m
    /\ \A e, f \in edges :
          (e.type \in MergedTypes /\ e.type = f.type /\ e.src = f.src /\ e.dst = f.dst) => e = f
    /\ \A sid \in RowIds : \A e \in hist.synced[sid] : \A k \in 1..Len(e.themes) :
          \A d \in 1..Len(e.themes[k].related_dimensions) :
             LET dim == e.themes[k].related_dimensions[d] IN
             /\ Cardinality(MatchNodes(G, "ScoringDimension", dim)) = 1
             /\ Cardinality(RelatesTo(e.themes[k].name, dim)) = 1

\* C1 witness: one session synced the same extraction twice, another session
\* synced too, and two themes share the node of the dimension ai_action.
C1_Witness ==
    /\ hist.count["s1"] = 2
    /\ Cardinality(hist.synced["s1"]) = 1
    /\ \E e \in hist.synced["s1"] : Len(e.themes) > 0
    /\ \E e \in hist.synced["s2"] : Len(e.themes) > 0
    /\ Cardinality(RelatesTo("ChatGPT adoption", "ai_action")) = 1
    /\ Cardinality(RelatesTo("Data entry", "ai_action")) = 1
    /\ Cardinality(SessionEdges("SURFACED", "s1", "Theme", "ChatGPT adoption")) = 1

QuotedInto(q) ==
    {e \in edges : e.type = "QUOTED" /\ e.dst = q.id /\
                   \E n \in nodes : n.label = "Session" /\ n.id = e.src}

\* C2 as stated: every completed sync adds exactly one Quote node per quote
\* of the extraction.
C2_Original ==
    SyncComplete => CountNodes("Quote") = hist.quotesBefore + Len(extraction.quotes)

\* C2 amended: a completed sync for a session id that has a Session node adds
\* exactly one new Quote node (never merged, even with an identical text) and
\* one QUOTED relationship per quote of the extraction; for a session id
\* without a Session node it adds no Quote node and no relationship.
C2_QuotesAppended ==
    /\ SyncComplete =>
          LET added == IF HasSessionNode(extraction.session_id)
                       THEN Len(extraction.quotes) ELSE 0
          IN /\ CountNodes("Quote") = hist.quotesBefore + added
             /\ Cardinality({e \in edges \ hist.edgesBefore : e.type = "QUOTED"}) = added
    /\ \A q \in nodes : q.label = "Quote" => Cardinality(QuotedInto(q)) = 1

\* C2 witness: the second completed sync of a session with a Session node,
\* with two quotes of identical text: the Quote nodes of that text pile up.
C2_Witness ==
    /\ SyncComplete
    /\ HasSessionNode(extraction.session_id)
    /\ hist.count[extraction.session_id] = 1
    /\ Len(extraction.quotes) = 2
    /\ extraction.quotes[1] = extraction.quotes[2]
    /\ Cardinality({q \in nodes : q.label = "Quote" /\ q.props.text = extraction.quotes[1].text}) >= 3

\* C3: a sync for a session id without a Session node creates no SURFACED,
\* USES_TOOL, HAS_PAIN_POINT or HAS_GOAL relationship, the process has not
\* ended on an error while it runs, and once it completed the Theme,
\* Tool, PainPoint and Goal nodes of the extraction exist, one per key, with
\* the values of the extraction.
C3_NoSessionNode ==
    (pc = "sync" /\ ~HasSessionNode(extraction.session_id)) =>
        /\ {e \in edges : e.type \in SessionTypes} = {e \in hist.edgesBefore : e.type \in SessionTypes}
        /\ exitCode = "none"
        /\ SyncComplete =>
              /\ \A key \in Keys(extraction.themes, "name") :
                    \E n \in nodes : /\ MatchNodes(G, "Theme", key) = {n}
                                      /\ "category" \in DOMAIN n.props
                                      /\ n.props.category = LastWith(extraction.themes, "name", key).category
              /\ \A key \in Keys(extraction.tools, "name") :
                    Cardinality(MatchNodes(G, "Tool", key)) = 1
              /\ \A key \in Keys(extraction.pain_points, "description") :
                    \E n \in nodes : /\ MatchNodes(G, "PainPoint", key) = {n}
                                      /\ "severity" \in DOMAIN n.props
                                      /\ n.props.severity = LastWith(extraction.pain_points, "description", key).severity
              /\ \A key \in Keys(extraction.goals, "description") :
                    \E n \in nodes : /\ MatchNodes(G, "Goal", key) = {n}
                                      /\ "relatedToAi" \in DOMAIN n.props
                                      /\ n.props.relatedToAi = LastWith(extraction.goals, "description", key).related_to_ai

\* C3 witness: the sync of s2 (no Session node) completed and created nodes
\* of every kind while the graph holds no relationship from a session.
C3_Witness ==
    /\ SyncComplete
    /\ ~HasSessionNode(extraction.session_id)
    /\ Len(extraction.themes) > 0 /\ Len(extraction.tools) > 0
    /\ Len(extraction.pain_points) > 0 /\ Len(extraction.goals) > 0
    /\ hist.edgesBefore = {}
    /\ \A e \in edges : e.type = "RELATES_TO"
    /\ \E n \in nodes : n.label = "Tool"

AnalyzedIds == {Rows[k].id : k \in {j \in 1..Len(Rows) : Rows[j].status = "analyzed"}}

\* the sessions with an outgoing SURFACED relationship
SurfacedIds == {n.key : n \in {m \in nodes : m.label = "Session" /\
                                  \E e \in edges : e.type = "SURFACED" /\ e.src = m.id}}

SeqIds(rows) == {rows[k].id : k \in 1..Len(rows)}

\* the batch the flags determine, `given` saying when --session counts as given
BatchOf(given) ==
    IF given THEN {args.session} \cap RowIds
    ELSE IF args.reprocess THEN AnalyzedIds
    ELSE AnalyzedIds \ SurfacedIds

\* the step that settles the batch: Fetch when no filter follows, else Filter
BatchSettled == pc \in {"fetch", "filter"} /\ pc' \in {"loop", "exited"}

Identity(row) ==
    LET p == IF row.data.present THEN row.data.participant ELSE row.participant
    IN [session_id |-> row.id,
        participant_name |-> IF p.name = Absent THEN "Unknown" ELSE p.name,
        company |-> IF p.company = Absent THEN "Unknown" ELSE p.company]

\* C5: extract_intelligence never ends the run (nothing raises to main); it
\* returns an extraction stamped with the session's id, participant name and
\* company, or no result; the fallback is entered exactly when langextract
\* is unavailable or the primary path raised; each path is entered at most
\* once per call; a failed fallback gives no result.
C5_ExtractContract ==
    /\ ex.primaryCalls <= 1 /\ ex.fallbackCalls <= 1
    /\ (ex.fallbackCalls = 1) <=> (ex.unavailable \/ ex.raised)
    /\ InExtract => exitCode = "none" /\ ex.result = "pending"
    /\ pc = "exited" => (ex.sid = None \/ ex.result \in {"extraction", "none"})
    /\ pc = "returned" =>
          /\ ex.result \in {"extraction", "none"}
          /\ ex.result = "extraction" =>
                /\ extraction.session_id = Identity(Row).session_id
                /\ extraction.participant_name = Identity(Row).participant_name
                /\ extraction.company = Identity(Row).company
          /\ ex.result = "none" => extraction = NoExtraction
          /\ ex.fallbackFailed => ex.result = "none"

\* C5 witness: the primary path raised after its LLM call, the fallback ran
\* once and returned an extraction for the participant without a name.
C5_Witness ==
    /\ pc = "returned"
    /\ ex.raised /\ ex.llmCalls = 2 /\ ex.primaryCalls = 1 /\ ex.fallbackCalls = 1
    /\ ex.result = "extraction"
    /\ extraction.session_id = "s2" /\ extraction.participant_name = "Unknown"
    /\ extraction.company = "Bolt"

\* C6 as stated: a run that entered the loop has, when it ends, processed
\* every session of the batch exactly once and in fetch order, and its
\* success count is the number of sessions that were synced.
C6_Claim ==
    (pc = "exited" /\ sessions # <<>>) =>
        /\ [k \in 1..Len(hist.log) |-> hist.log[k].sid] = [k \in 1..Len(sessions) |-> sessions[k].id]
        /\ success_count = Cardinality({k \in 1..Len(hist.log) : hist.log[k].result = "synced"})

\* no response has an eligible input type
ZeroEligible(row) ==
    \A k \in 1..Len(DataOf(row).responses) :
        DataOf(row).responses[k].inputType \notin {"ai_conversation", "open_text", "voice"}

\* C7: for a session with no eligible response the transcript is empty, no
\* LLM call is made on either path, the extractor returns no result, and the
\* session is never synced (the run writes nothing to the graph for it).
C7_NoEligibleResponse ==
    /\ (InExtract \/ pc \in {"returned", "sync"}) =>
          (ZeroEligible(Row) =>
              /\ get_ai_conversation_text(Row) = <<>>
              /\ ex.llmCalls = 0
              /\ pc # "sync"
              /\ pc = "returned" => ex.result = "none" /\ extraction = NoExtraction)
    /\ \A k \in 1..Len(hist.log) :
          ZeroEligible(sessions[k]) => hist.log[k].result = "none"

\* C7 witness: the fallback path reached its transcript test for the session
\* without eligible responses and returned no result without an LLM call.
C7_Witness ==
    /\ pc = "returned"
    /\ ZeroEligible(Row)
    /\ ex.unavailable /\ ex.fallbackCalls = 1 /\ api_key_set
    /\ ex.result = "none" /\ ex.llmCalls = 0

\* C8 as stated: a run ends with status 1 exactly when the graph store was
\* unreachable at the startup check, and with status 0 otherwise.
C8_Claim ==
    pc = "exited" => /\ exitCode \in {0, 1}
                     /\ (exitCode = 1) <=> hist.unreachable

\* C9 as stated: after a graph write error in a sync the batch goes on: the
\* run ends only with every session of the batch handled and the summary
\* produced.
C9_Claim ==
    (hist.writeError /\ pc = "exited") =>
        /\ summary
        /\ Len(hist.log) >= Len(sessions) - 1

\* the value written for an optional field, `absent` being the values that
\* count as absent
Written(value, absent, default) == IF value \in absent THEN default ELSE value

\* the one relationship of the type from the session to the key's node
\* carries exactly the given properties
CarriesExactly(type, sid, label, key, props) ==
    \E e \in edges : SessionEdges(type, sid, label, key) = {e} /\ e.props = props

\* at the end of a sync of E2 (the running extraction) for a session with a
\* Session node that completed a sync of E1 before: for every key of both,
\* the relationship carries the values of (the last entry of) E2
OverwrittenBy(absent) ==
    (SyncComplete /\ HasSessionNode(extraction.session_id)) =>
        \A e1 \in hist.synced[extraction.session_id] :
            /\ \A key \in Keys(e1.themes, "name") \cap Keys(extraction.themes, "name") :
                  LET t == LastWith(extraction.themes, "name", key) IN
                  CarriesExactly("SURFACED", extraction.session_id, "Theme", key,
                                 [sentiment |-> t.sentiment, confidence |-> t.confidence,
                                  evidence |-> t.evidence])
            /\ \A key \in Keys(e1.tools, "name") \cap Keys(extraction.tools, "name") :
                  LET t == LastWith(extraction.tools, "name", key) IN
                  CarriesExactly("USES_TOOL", extraction.session_id, "Tool", key,
                                 [frequency |-> Written(t.usage_frequency, absent, "unknown"),
                                  sophistication |-> Written(t.sophistication, absent, "unknown"),
                                  useCase |-> Written(t.use_case, absent, "")])
            /\ \A key \in Keys(e1.pain_points, "description")
                          \cap Keys(extraction.pain_points, "description") :
                  LET p == LastWith(extraction.pain_points, "description", key) IN
                  CarriesExactly("HAS_PAIN_POINT", extraction.session_id, "PainPoint", key,
                                 [potentialAiSolution |->
                                     Written(p.potential_ai_solution, absent, "")])

\* C10 as stated: the relationship carries exactly E2's values, the default
\* standing in for an absent (None) optional value only.
C10_Original == OverwrittenBy({None})

\* C10 amended: the relationship carries exactly the values of E2 (of its
\* last entry with that key) and nothing of E1, the default 'unknown' or ''
\* being written for an optional value that is absent or the empty string.
C10_EdgesOverwritten == OverwrittenBy({None, ""})

\* C10 witness: a session synced answer 1 and then completes the sync of
\* answer 2: the SURFACED relationship turned from positive to negative and
\* the USES_TOOL relationship carries the defaults.
C10_Witness ==
    /\ SyncComplete
    /\ HasSessionNode(extraction.session_id)
    /\ \E e1 \in hist.synced[extraction.session_id] :
          /\ Len(e1.themes) = 1 /\ e1.themes[1].sentiment = "positive"
          /\ Len(e1.tools) = 1 /\ e1.tools[1].usage_frequency = "daily"
    /\ Len(extraction.themes) = 3 /\ extraction.tools[1].usage_frequency = None
    /\ \E e \in SessionEdges("SURFACED", extraction.session_id, "Theme", "ChatGPT adoption") :
          e.props.sentiment = "negative" /\ e.props.evidence = "slow"
    /\ \E e \in SessionEdges("USES_TOOL", extraction.session_id, "Tool", "ChatGPT") :
          e.props.frequency = "unknown" /\ e.props.useCase = ""

\* the blocks of a text: what stands between its blank lines
RECURSIVE Blocks(_)
Blocks(text) ==
    IF text = <<>> THEN <<>>
    ELSE LET cuts == {k \in 1..Len(text) : text[k] = "\n\n"}
             cut == IF cuts = {} THEN Len(text) + 1
                    ELSE CHOOSE k \in cuts : \A o \in cuts : k <= o
         IN <<SubSeq(text, 1, cut - 1)>>
            \o (IF cut > Len(text) THEN <<>> ELSE Blocks(SubSeq(text, cut + 1, Len(text))))

\* the response list of a session record
ResponsesOf(row) == IF row.data.present THEN row.data.responses ELSE row.responses

Eligible(resp) == resp.inputType \in {"ai_conversation", "open_text", "voice"}

\* the number of blocks of the responses before the k-th, a follow-up
\* counting for `per` blocks
RECURSIVE BlocksBefore(_, _, _)
BlocksBefore(responses, k, per) ==
    IF k = 1 THEN 0
    ELSE BlocksBefore(responses, k - 1, per)
         + (IF Eligible(responses[k - 1])
            THEN 1 + per * Len(responses[k - 1].aiFollowUps) ELSE 0)

Holds(block, part) == \E x \in 1..Len(block) : block[x] = part

\* the text consists of one Q/A block per eligible response, in order, each
\* followed by the blocks of its follow-ups, in order, and of nothing else:
\* with per = 1 a follow-up is one block holding its question and answer,
\* with per = 2 it is a question block and then an answer block
BlocksAre(responses, text, per) ==
    LET b == Blocks(text) IN
    /\ Len(b) = BlocksBefore(responses, Len(responses) + 1, per)
    /\ \A k \in 1..Len(responses) :
          Eligible(responses[k]) =>
             LET o == BlocksBefore(responses, k, per)
                 f == responses[k].aiFollowUps
             IN /\ b[o + 1] = <<"Q: ", responses[k].questionText, "\nA: ", responses[k].answer>>
                /\ \A j \in 1..Len(f) :
                      IF per = 1
                      THEN Holds(b[o + 1 + j], f[j].question) /\ Holds(b[o + 1 + j], f[j].answer)
                      ELSE /\ b[o + 2 * j] = <<"Follow-up Q: ", f[j].question>>
                           /\ b[o + 2 * j + 1] = <<"Follow-up A: ", f[j].answer>>

\* the step in which a path of the extractor builds the transcript
BuildsText == pc \in {"ex_text", "fb_text"}

\* C11 as stated: the transcript is one Q/A block per eligible response, each
\* followed by exactly one Q/A block per follow-up.
C11_Original == [][BuildsText => BlocksAre(ResponsesOf(Row), conversation_text', 1)]_vars

\* C11 amended: the transcript consists of blocks joined by a blank line: one
\* "Q: ...\nA: ..." block for each response whose input type is in
\* {ai_conversation, open_text, voice}, in response order, each immediately
\* followed by exactly two blocks per follow-up of that response, in
\* follow-up order: "Follow-up Q: <question>" and then "Follow-up A:
\* <answer>"; a response of another input type contributes no block, nor do
\* its follow-ups.
C11_TranscriptBlocks == [][BuildsText => BlocksAre(ResponsesOf(Row), conversation_text', 2)]_vars

\* C11 witness: the fallback path built the transcript of a record wrapped
\* under `data` whose first response is a slider with follow-ups and whose
\* second is a voice response with two follow-ups: five blocks.
C11_Witness ==
    /\ pc = "fb_call"
    /\ Row.data.present
    /\ Len(ResponsesOf(Row)) = 2
    /\ ResponsesOf(Row)[1].inputType = "slider" /\ Len(ResponsesOf(Row)[1].aiFollowUps) = 2
    /\ ResponsesOf(Row)[2].inputType = "voice" /\ Len(ResponsesOf(Row)[2].aiFollowUps) = 2
    /\ Len(Blocks(conversation_text)) = 5
    /\ Blocks(conversation_text)[1] = <<"Q: ", "q2", "\nA: ", "a2">>
    /\ Blocks(conversation_text)[5] = <<"Follow-up A: ", "fa22">>

\* the running run was started without a flag and has settled its batch
DefaultBatch == args = NoArgs /\ pc \notin {"idle", "verify", "fetch", "filter"}

====
